---- MODULE Spec2Model ----
(***************************************************************************)
(* A model of buildcloth's build system core (src/buildcloth/system.py):   *)
(* the BuildSystem stage container with its run / run_part execution loop, *)
(* and the BuildSystemGenerator that compiles ingested job specifications  *)
(* into a BuildSystem.                                                     *)
(*                                                                         *)
(* Python values that may be None are modelled as strings: an optional     *)
(* boolean is one of "None", "True", "False".  Stage and target names are  *)
(* the integers 1..NumNames (the code only compares names for equality).   *)
(***************************************************************************)
EXTENDS Integers, Sequences, FiniteSets, TLC

\* ------------------------------------------------------------------ bounds
NumNames == 3       \* names available for stages and targets
MaxStages == 3      \* longest stage order built through the BuildSystem API
MaxFree == 2        \* number of free (stage) job specs ingested
MaxDeps == 1        \* longest dependency list of one ingested spec
MaxExtend == 2      \* most stages of a system given to extend
MaxTasks == 2       \* longest task list of a sequence spec
MaxIngest == 2      \* specs of any shape ingested with success
MaxMapDeps == 2     \* longest dependency list in the maps given to narrow_buildsystem
NumLines == 2       \* distinct lines added to a BuildFile
MaxAdds == 3        \* lines added to one BuildFile

Names == 1..NumNames
OptBool == {"None", "True", "False"}

PyBool(b) == IF b THEN "True" ELSE "False"

\* ------------------------------------------------------------------ state
VARIABLES
    bs,            \* a BuildSystem object driven through its public API
    nextId,        \* identity given to the next stage object constructed
    pc,            \* position of the run_part call: idle, loop, instage, done
    call,          \* the last call on bs and its arguments
    strict,        \* run_part's local `strict` after defaulting (line 334-336)
    run_stages,    \* run_part's local `run_stages`
    pos,           \* index in run_stages of the for loop (line 370)
    ret,           \* run_part's local `ret`: "unbound", "True" or "False"
    log,           \* the stages whose run() was started, in order
    result,        \* the value returned by the call, "noreturn" before that
    raised,        \* the exception the call ended with, "none" otherwise
    why,           \* which raise statement raised
    _stages,       \* BuildSystemGenerator._stages: the free-task BuildSystem
    system,        \* BuildSystemGenerator.system: <<>> for None, else <<S>>
    aliased,       \* TRUE when system is the very object _stages (line 510)
    _process_tree, \* target -> set of declared dependencies
    _process_jobs, \* target -> [job, rebuild]
    _process,      \* the sorted order computed by finalize (line 519)
    _final,        \* BuildSystemGenerator._final
    specs,         \* BuildSystemGenerator.specs: target -> job spec
    check_method,  \* the rebuild check mode of BuildSystemGenerator.check
    lastOp,        \* the generator method called last
    freeCount,     \* number of free job specs ingested so far
    genRaised,     \* the exception the last generator call ended with
    genCall,       \* the last generator call and its argument
    npc,           \* position of the narrow_buildsystem call: idle, resolve, done
    requested,     \* the target narrow_buildsystem was called with
    targets,       \* narrow_buildsystem's local set `targets`
    nstack,        \* the calls of resolve in progress, the innermost last
    expanded,      \* the targets resolve was called for, in order
    nraised,       \* the exception narrow_buildsystem ended with
    bsg,           \* the compiler narrow_buildsystem returned: <<>> or <<g>>
    builder,       \* BuildFile.builder: block name -> list object
    added,         \* the lines _add_to_builder has added, with their blocks
    fileCall,      \* the last call on the BuildFile and its arguments
    fileRaised     \* the exception that call ended with

runVars == <<pc, call, strict, run_stages, pos, ret, log, result, raised, why>>
narrowVars == <<npc, requested, targets, nstack, expanded, nraised, bsg>>
fileVars == <<builder, added, fileCall, fileRaised>>
genVars == <<_stages, system, aliased, _process_tree, _process_jobs, _process,
             _final, specs, check_method, lastOp, freeCount, genRaised,
             genCall, narrowVars>>
vars == <<bs, nextId, runVars, genVars, fileVars>>

\* ------------------------------------------------------------ BuildSystem
\* BuildSystem.__init__ without an initial system.
NewBuildSystem ==
    [_stages |-> <<>>, stages |-> <<>>, open |-> TRUE, _strict |-> TRUE]

\* A stage object as constructed by BuildStage() / BuildSequence().  The
\* kinds "None" and "NotBuildSteps" stand for the values None and anything
\* that is no BuildSteps object, as arguments of add_stage.
NewStage(id, kind) == [id |-> id, kind |-> kind, jobs |-> <<>>]
NoStage == NewStage(0, "None")
NotBuildSteps == NewStage(0, "NotBuildSteps")
IsBuildSteps(stage) == stage.kind \in {"BuildStage", "BuildSequence"}

\* f with key k bound to v (dict item assignment).
DictSet(f, k, v) == [x \in (DOMAIN f) \cup {k} |-> IF x = k THEN v ELSE f[x]]

\* dict.update: the entries of g win.
DictUpdateMutant(f, g) ==
    [x \in (DOMAIN f) \cup (DOMAIN g) |-> IF x \in DOMAIN f THEN f[x] ELSE g[x]]

DictUpdate(f, g) ==
    [x \in (DOMAIN f) \cup (DOMAIN g) |-> IF x \in DOMAIN g THEN g[x] ELSE f[x]]

\* BuildSystem._error_or_return: the exception raised ("none" when it returns
\* False instead).
_error_or_return(S, strictArg, exception) ==
    LET s == IF strictArg = "None" THEN PyBool(S._strict) ELSE strictArg
    IN  IF s = "True" THEN exception ELSE "none"

\* BuildSystem.close
closeMutant(S) == [S EXCEPT !.open = ~S.open]
close(S) == IF S.open THEN [S EXCEPT !.open = FALSE] ELSE S

\* BuildSystem.extend with a BuildSystem argument.
extendMutant(S, other) == [S EXCEPT !._stages = S._stages \o other._stages]

extend(S, other) ==
    [S EXCEPT !.stages = DictUpdate(S.stages, other.stages),
              !._stages = S._stages \o other._stages]

\* BuildSystem(initial_system)
BuildSystemFrom(initial) == extend(NewBuildSystem, initial)

\* BuildSystem.add_stage.  The outcome is the system afterwards, the value
\* returned and the exception raised.
add_stage(S, name, stage, stage_type, strictArg, id) ==
    LET made == IF stage.kind = "None" /\ stage_type = "stage"
                    THEN NewStage(id, "BuildStage")
                ELSE IF stage.kind = "None" /\ stage_type \in {"seq", "sequence"}
                    THEN NewStage(id, "BuildSequence")
                ELSE stage
        e1 == IF stage.kind = "None"
                 /\ stage_type \notin {"stage", "seq", "sequence"}
                  THEN _error_or_return(S, strictArg, "InvalidStage")
                  ELSE "none"
    IN  IF e1 # "none"
            THEN [sys |-> S, ret |-> "noreturn", exc |-> e1]
        ELSE IF ~IsBuildSteps(made)
            THEN LET e2 == _error_or_return(S, strictArg, "InvalidStage")
                 IN  [sys |-> S,
                      ret |-> IF e2 = "none" THEN "None" ELSE "noreturn",
                      exc |-> e2]
        ELSE [sys |-> [S EXCEPT !._stages = Append(S._stages, name),
                                !.stages = DictSet(S.stages, name, made)],
              ret |-> "True", exc |-> "none"]

\* BuildSystem.new_stage
new_stage(S, name, id) == add_stage(S, name, NoStage, "stage", "None", id)

\* BuildSystem.count
count(S) == Len(S._stages)

\* The python slice seq[a:b] for 0 <= a, 0 <= b.
Slice(seq, a, b) ==
    LET hi == IF b > Len(seq) THEN Len(seq) ELSE b
    IN  IF a >= hi THEN <<>> ELSE SubSeq(seq, a + 1, hi)

\* run_part, lines 338-364: the stages selected, or the range error.
SelectMutant(S, stop, start, run_all) ==
    IF run_all THEN [ok |-> TRUE, sel |-> S._stages]
    ELSE IF start < 0 \/ stop < 0 THEN [ok |-> FALSE, sel |-> <<>>]
    ELSE IF Len(S._stages) = 1 /\ stop = 0 THEN [ok |-> TRUE, sel |-> S._stages]
    ELSE IF stop + 1 > Len(S._stages) THEN [ok |-> FALSE, sel |-> <<>>]
    ELSE IF start = stop THEN [ok |-> TRUE, sel |-> <<S._stages[start + 1]>>]
    ELSE [ok |-> TRUE, sel |-> Slice(S._stages, start, stop)]

Select(S, stop, start, run_all) ==
    IF run_all THEN [ok |-> TRUE, sel |-> S._stages]
    ELSE IF start > stop THEN [ok |-> FALSE, sel |-> <<>>]
    ELSE IF start < 0 \/ stop < 0 THEN [ok |-> FALSE, sel |-> <<>>]
    ELSE IF Len(S._stages) = 1 /\ stop = 0 THEN [ok |-> TRUE, sel |-> S._stages]
    ELSE IF stop + 1 > Len(S._stages) THEN [ok |-> FALSE, sel |-> <<>>]
    ELSE IF start = 0 /\ stop = 0 THEN [ok |-> TRUE, sel |-> <<S._stages[1]>>]
    ELSE IF start = stop THEN [ok |-> TRUE, sel |-> <<S._stages[start + 1]>>]
    ELSE [ok |-> TRUE, sel |-> Slice(S._stages, start, stop)]

\* The values a stage object's run() can return: success iff every job
\* succeeds; a job's success is decided by the environment.
StageRunOutcomes(obj) == IF Len(obj.jobs) = 0 THEN {TRUE} ELSE BOOLEAN

\* run_part, line 366: an open system is refused in strict mode.
MustBeClosedMutant(S, st) == FALSE
MustBeClosed(S, st) == st = "True" /\ S.open

\* run_part, line 370: the stage the for loop visits at its pos-th iteration.
LoopStageMutant(sel, p) == sel[Len(sel) + 1 - p]
LoopStage(sel, p) == sel[p]

\* run_part, lines 375-378: whether the loop is left after a stage returned r.
StopsAfterMutant(r) == FALSE
StopsAfter(r) == r = FALSE

\* run_part, line 376: building the message reads the name idx, which
\* run_part never binds, so the statement raises NameError before line 378's
\* _error_or_return is reached.
FailureReport(S, st) == [raised |-> "NameError", result |-> "noreturn"]

\* run_part, line 380: `return ret`; ret is unbound when the loop body never ran.
LoopReturn(r) ==
    IF r = "unbound" THEN [raised |-> "UnboundLocalError", result |-> "noreturn"]
    ELSE [raised |-> "none", result |-> r]

\* ----------------------------------------------- run_part / run, by steps
\* The call itself, lines 334-368: defaulting of strict, selection of the
\* stages, the closed check.  BuildSystem.run(strict) is
\* run_part(run_all=True, strict=strict) (line 392).
run_part(S, op, stop, start, run_all, strictArg) ==
    LET st == IF strictArg = "None" THEN PyBool(S._strict) ELSE strictArg
        sel == Select(S, stop, start, run_all)
        e == _error_or_return(S, st, "StageRunError")
    IN  /\ pc = "idle"
        /\ call' = [op |-> op, stop |-> stop, start |-> start]
        /\ strict' = st
        /\ pos' = 1
        /\ ret' = "unbound"
        /\ log' = <<>>
        /\ IF ~sel.ok
              THEN /\ run_stages' = <<>>
                   /\ raised' = e
                   /\ result' = IF e = "none" THEN "False" ELSE "noreturn"
                   /\ why' = "range"
                   /\ pc' = "done"
           ELSE IF MustBeClosed(S, st)
              THEN /\ run_stages' = sel.sel
                   /\ raised' = "StageRunError"
                   /\ result' = "noreturn"
                   /\ why' = "open"
                   /\ pc' = "done"
           ELSE /\ run_stages' = sel.sel
                /\ raised' = "none"
                /\ result' = "noreturn"
                /\ why' = "none"
                /\ pc' = "loop"

\* Line 372, the call self.stages[job].run() is made.
StageStart(S) ==
    /\ pc = "loop"
    /\ pos <= Len(run_stages)
    /\ log' = Append(log, LoopStage(run_stages, pos))
    /\ pc' = "instage"
    /\ UNCHANGED <<call, strict, run_stages, pos, ret, result, raised, why>>

\* Lines 372-378, the stage's run() returns r.
StageReturn(S) ==
    /\ pc = "instage"
    /\ \E r \in StageRunOutcomes(S.stages[log[Len(log)]]) :
          /\ ret' = PyBool(r)
          /\ IF StopsAfter(r)
                THEN /\ raised' = FailureReport(S, strict).raised
                     /\ result' = FailureReport(S, strict).result
                     /\ why' = "failed"
                     /\ pc' = "done"
                     /\ pos' = pos
                ELSE /\ pos' = pos + 1
                     /\ pc' = "loop"
                     /\ UNCHANGED <<raised, result, why>>
    /\ UNCHANGED <<call, strict, run_stages, log>>

\* Line 380, the loop is exhausted.
LoopExit(S) ==
    /\ pc = "loop"
    /\ pos > Len(run_stages)
    /\ raised' = LoopReturn(ret).raised
    /\ result' = LoopReturn(ret).result
    /\ why' = IF ret = "unbound" THEN "ret" ELSE "none"
    /\ pc' = "done"
    /\ UNCHANGED <<call, strict, run_stages, pos, ret, log>>

\* The caller has the outcome of the call and goes on.
Return ==
    /\ pc = "done"
    /\ pc' = "idle"
    /\ call' = [op |-> "none"]
    /\ strict' = "None"
    /\ run_stages' = <<>>
    /\ pos' = 1
    /\ ret' = "unbound"
    /\ log' = <<>>
    /\ result' = "noreturn"
    /\ raised' = "none"
    /\ why' = "none"

\* The run variables after call c that is no run: outcome r, exception e.
Outcome(c, r, e) ==
    /\ pc' = "idle"
    /\ call' = c
    /\ strict' = "None"
    /\ run_stages' = <<>>
    /\ pos' = 1
    /\ ret' = "unbound"
    /\ log' = <<>>
    /\ result' = r
    /\ raised' = e
    /\ why' = "none"

\* ------------------------------------------- the BuildSystem API, on bs
\* A stage object built by the caller, holding one job.
CallerStage(id) ==
    [id |-> id, kind |-> "BuildStage", jobs |-> <<[src |-> "api", n |-> id]>>]

\* What add_stage is given as its stage: the kind of the object, or for None
\* the stage type asked for, which is read in that case only (lines 198-204).
Given(stage, stage_type) == IF stage.kind = "None" THEN stage_type ELSE stage.kind

AddStage ==
    /\ pc = "idle"
    /\ Len(bs._stages) < MaxStages
    /\ \E name \in Names, stage_type \in {"stage", "seq", "other"},
          strictArg \in OptBool,
          stage \in {NoStage, NotBuildSteps, CallerStage(nextId)} :
          LET r == add_stage(bs, name, stage, stage_type, strictArg, nextId)
          IN  /\ bs' = r.sys
              /\ nextId' = IF r.ret = "True" THEN nextId + 1 ELSE nextId
              /\ Outcome([op |-> "add_stage", name |-> name,
                          strict |-> strictArg, stage |-> Given(stage, stage_type)],
                         r.ret, r.exc)
    /\ UNCHANGED <<genVars, fileVars>>

\* BuildSystem.new_stage(name): add_stage(name, stage=None), whose return
\* value is dropped.
NewStageCall ==
    /\ pc = "idle"
    /\ Len(bs._stages) < MaxStages
    /\ \E name \in Names :
          LET r == new_stage(bs, name, nextId)
          IN  /\ bs' = r.sys
              /\ nextId' = IF r.ret = "True" THEN nextId + 1 ELSE nextId
              /\ Outcome([op |-> "new_stage", name |-> name],
                         IF r.exc = "none" THEN "None" ELSE "noreturn", r.exc)
    /\ UNCHANGED <<genVars, fileVars>>

\* A BuildSystem built by the caller: the stages named by order, each a
\* stage object of its own holding one job, added with add_stage.
RECURSIVE OtherFrom(_, _, _)
OtherFrom(S, order, id) ==
    IF order = <<>> THEN S
    ELSE OtherFrom(add_stage(S, order[1], CallerStage(id), "stage", "None", id).sys,
                   Tail(order), id + 1)

OtherSystem(order, id) == OtherFrom(NewBuildSystem, order, id)

OtherOrders == UNION {[1..n -> Names] : n \in 0..MaxExtend}

\* BuildSystem.extend(system) with a BuildSystem, or with a value that is none.
Extend ==
    /\ pc = "idle"
    /\ \/ \E order \in OtherOrders :
             /\ Len(bs._stages) + Len(order) <= MaxStages
             /\ bs' = extend(bs, OtherSystem(order, nextId))
             /\ nextId' = nextId + Len(order)
             /\ Outcome([op |-> "extend",
                         other |-> <<OtherSystem(order, nextId)>>],
                        "None", "none")
       \/ /\ UNCHANGED <<bs, nextId>>
          /\ Outcome([op |-> "extend", other |-> <<>>],
                     "noreturn", "InvalidSystem")
    /\ UNCHANGED <<genVars, fileVars>>

\* BuildSystem.run_stage, lines 305-311.  The value of _error_or_return is
\* not returned (line 306), so in permissive mode the call returns None.
run_stage(S, name, strictArg) ==
    IF name \notin DOMAIN S.stages
        THEN LET e == _error_or_return(S, strictArg, "StageRunError")
             IN  [ran |-> <<>>,
                  ret |-> IF e = "none" THEN "None" ELSE "noreturn",
                  exc |-> e]
        ELSE [ran |-> <<name>>, ret |-> "True", exc |-> "none"]

RunStage ==
    /\ pc = "idle"
    /\ \E name \in Names, strictArg \in OptBool :
          LET r == run_stage(bs, name, strictArg)
          IN  /\ pc' = "idle"
              /\ call' = [op |-> "run_stage", name |-> name,
                          strict |-> strictArg]
              /\ strict' = "None"
              /\ run_stages' = <<>>
              /\ pos' = 1
              /\ ret' = "unbound"
              /\ log' = r.ran
              /\ result' = r.ret
              /\ raised' = r.exc
              /\ why' = "none"
    /\ UNCHANGED <<bs, nextId, genVars, fileVars>>

Close ==
    /\ pc = "idle"
    /\ bs' = close(bs)
    /\ Outcome([op |-> "close", wasOpen |-> bs.open], "None", "none")
    /\ UNCHANGED <<nextId, genVars, fileVars>>

\* The strict property setter, lines 91-98.
SetStrict ==
    /\ pc = "idle"
    /\ \E value \in BOOLEAN : bs' = [bs EXCEPT !._strict = value]
    /\ Outcome([op |-> "strict"], "None", "none")
    /\ UNCHANGED <<nextId, genVars, fileVars>>

Run ==
    /\ \E strictArg \in OptBool : run_part(bs, "run", 0, 0, TRUE, strictArg)
    /\ UNCHANGED <<bs, nextId, genVars, fileVars>>

RunPart ==
    /\ \E stop \in -1..MaxStages, start \in -1..MaxStages, strictArg \in OptBool :
          run_part(bs, "run_part", stop, start, FALSE, strictArg)
    /\ UNCHANGED <<bs, nextId, genVars, fileVars>>

RunStageStart == StageStart(bs) /\ UNCHANGED <<bs, nextId, genVars, fileVars>>
RunStageReturn == StageReturn(bs) /\ UNCHANGED <<bs, nextId, genVars, fileVars>>
RunLoopExit == LoopExit(bs) /\ UNCHANGED <<bs, nextId, genVars, fileVars>>
RunReturn == Return /\ UNCHANGED <<bs, nextId, genVars, fileVars>>

\* ------------------------------------------------------------- generator
Range(seq) == {seq[k] : k \in 1..Len(seq)}

\* The stage name given to a free job spec without one (line 1002).
Unspecified == 0

\* BuildSteps.add: the job is appended to the stage object.
StageAdd(obj, job) == [obj EXCEPT !.jobs = Append(@, job)]

\* The same, on the stage object of identity id wherever system S refers to it.
AddToObject(S, id, job) ==
    [S EXCEPT !.stages =
        [n \in DOMAIN @ |-> IF @[n].id = id THEN StageAdd(@[n], job) ELSE @[n]]]

\* DependencyChecks.check under the configured mode: force and ignore fix
\* the decision, under mtime the file system decides.
RebuildOutcomes(mode) ==
    IF mode = "force" THEN {TRUE}
    ELSE IF mode = "ignore" THEN {FALSE}
    ELSE BOOLEAN

\* tsort: the targets of the dependency map, every target after those of its
\* prerequisites that are targets themselves; among the targets that may
\* come next the one ingested first is taken.  Targets are ingested in
\* increasing name order, so that one is the least.  A map with a cycle has
\* no order.
RECURSIVE TSortFrom(_, _)
TSortFrom(tree, done) ==
    LET emitted == Range(done)
        ready == {t \in (DOMAIN tree) \ emitted :
                     (tree[t] \cap DOMAIN tree) \subseteq emitted}
        first == CHOOSE t \in ready : \A u \in ready : t <= u
    IN  IF emitted = DOMAIN tree THEN [ok |-> TRUE, order |-> done]
        ELSE IF ready = {} THEN [ok |-> FALSE, order |-> <<>>]
        ELSE TSortFrom(tree, Append(done, first))

tsort(tree) == TSortFrom(tree, <<>>)

\* _add_tasks_to_stage, lines 617-629, on the system being compiled.
_add_tasks_to_stage(S, jobsOf, rebuilds_needed, task, stack, id) ==
    IF rebuilds_needed
        THEN LET S1 == new_stage(S, task, id).sys
                 RECURSIVE AddAll(_, _)
                 AddAll(obj, k) ==
                     IF k > Len(stack) THEN obj
                     ELSE AddAll(StageAdd(obj, jobsOf[stack[k]].job), k + 1)
                 filled == IF stack # <<>>
                               THEN AddAll(S1.stages[task], 1)
                               ELSE StageAdd(S1.stages[task], jobsOf[task].job)
             IN  [S1 EXCEPT !.stages[task] = filled]
        ELSE S

\* _finalize_process_tree, line 580: `i not in self._process_tree[
\* self._process[idx]]`, where idx is the index of i itself.
InDependencies(tree, proc, idx, i) == i \in tree[proc[idx]]

\* _finalize_process_tree, lines 557-592: the loop from the idx-th target
\* on (idx counts from 1 here).  st holds the system, rebuilds_needed, the
\* stack and the next stage identity.
RECURSIVE FinalizeLoop(_, _, _, _, _)
FinalizeLoop(tree, jobsOf, proc, idx, st) ==
    IF idx > Len(proc) THEN st
    ELSE
      LET i == proc[idx]
          total == Len(proc)
          skip == ~st.rebuilds_needed /\ ~jobsOf[i].rebuild
          needed == st.rebuilds_needed \/ jobsOf[i].rebuild
          last == idx = total
          stack1 == IF last
                        THEN IF st.stack # <<>> THEN Append(st.stack, i)
                                                ELSE st.stack
                        ELSE Append(st.stack, i)
          queued == ~last /\ ~InDependencies(tree, proc, idx, i)
      IN  IF skip THEN FinalizeLoop(tree, jobsOf, proc, idx + 1, st)
          ELSE IF queued
              THEN FinalizeLoop(tree, jobsOf, proc, idx + 1,
                       [st EXCEPT !.rebuilds_needed = needed, !.stack = stack1])
          ELSE FinalizeLoop(tree, jobsOf, proc, idx + 1,
                   [sys |-> _add_tasks_to_stage(st.sys, jobsOf, needed, i,
                                                stack1, st.id),
                    rebuilds_needed |-> needed,
                    stack |-> <<>>,
                    id |-> st.id + 1])

_finalize_process_tree(S, tree, jobsOf, proc, id) ==
    FinalizeLoop(tree, jobsOf, proc, 1,
                 [sys |-> S, rebuilds_needed |-> FALSE, stack |-> <<>>, id |-> id])

\* finalize, lines 516-526, once the map is sorted: the free stages merged
\* into the compiled system.
MergeFree(S, free) == IF count(free) > 0 THEN extend(S, free) ELSE S

\* finalize, line 517: the system the compilation starts from.
StartSystem(free) == BuildSystemFrom(free)

\* finalize, line 510: with an empty dependency map the free-task system
\* itself becomes the system.
AdoptStagesMutant(free) == NewBuildSystem
AdoptStages(free) == free

\* finalize, line 505: whether the compiler may still be finalized.
MayFinalizeMutant(final, sys) == TRUE
MayFinalize(final, sys) == final = FALSE /\ sys = <<>>

\* BuildSystemGenerator.finalize
Finalize ==
    /\ lastOp' = "finalize"
    /\ genCall' = [op |-> "finalize"]
    /\ IF MayFinalize(_final, system)
          THEN IF DOMAIN _process_tree = {}
                  THEN IF count(_stages) > 0
                          THEN /\ _stages' = close(_stages)
                               /\ system' = <<close(AdoptStages(_stages))>>
                               /\ aliased' = TRUE
                               /\ _final' = TRUE
                               /\ genRaised' = "none"
                               /\ UNCHANGED <<_process, nextId>>
                          ELSE /\ genRaised' = "InvalidSystem"
                               /\ UNCHANGED <<_stages, system, aliased, _final,
                                              _process, nextId>>
                  ELSE LET sorted == tsort(_process_tree)
                           done == _finalize_process_tree(StartSystem(_stages),
                                       _process_tree, _process_jobs,
                                       sorted.order, nextId)
                       IN  IF sorted.ok
                              THEN /\ _process' = sorted.order
                                   /\ system' =
                                        <<close(MergeFree(done.sys, _stages))>>
                                   /\ nextId' = done.id
                                   /\ _final' = TRUE
                                   /\ genRaised' = "none"
                                   /\ UNCHANGED <<_stages, aliased>>
                              ELSE /\ system' = <<StartSystem(_stages)>>
                                   /\ genRaised' = "CyclicDependency"
                                   /\ UNCHANGED <<_stages, aliased, _final,
                                                  _process, nextId>>
          ELSE /\ genRaised' = "InvalidSystem"
               /\ UNCHANGED <<_stages, system, aliased, _final, _process, nextId>>
    /\ UNCHANGED <<_process_tree, _process_jobs, specs, check_method, freeCount,
                   bs, runVars, fileVars, narrowVars>>

\* generate_sequence, lines 759-774: the entries of the task list the built
\* sequence runs, by their index in the list.  An entry with a 'job' key or a
\* 'cmd' key gives a task of its own; for any other entry the names job and
\* args keep the values of the entry before (lines 765-770), and are unbound
\* when there is none.
RECURSIVE SequenceFrom(_, _, _)
SequenceFrom(entries, k, runs) ==
    IF k > Len(entries) THEN [exc |-> "none", runs |-> runs]
    ELSE IF entries[k] \in {"job", "cmd"}
        THEN SequenceFrom(entries, k + 1, Append(runs, k))
    ELSE IF runs = <<>> THEN [exc |-> "UnboundLocalError", runs |-> <<>>]
    ELSE SequenceFrom(entries, k + 1, Append(runs, runs[Len(runs)]))

generate_sequence(tasks) ==
    IF ~tasks.list THEN [exc |-> "InvalidStage", runs |-> <<>>]
    ELSE SequenceFrom(tasks.entries, 1, <<>>)

\* _process_stage, lines 901-919: the task built from a spec by its shape, or
\* the exception raised.
_process_stage(spec) ==
    IF {"job", "args"} \subseteq spec.keys
        THEN [exc |-> "none", kind |-> "job", runs |-> <<>>]
    ELSE IF {"dir", "cmd", "args"} \subseteq spec.keys
        THEN [exc |-> "none", kind |-> "shell", runs |-> <<>>]
    ELSE IF "tasks" \in spec.keys
        THEN [exc |-> generate_sequence(spec.tasks).exc, kind |-> "sequence",
              runs |-> generate_sequence(spec.tasks).runs]
    ELSE [exc |-> "InvalidJob", kind |-> "none", runs |-> <<>>]

\* The job added for a spec: a sequence carries the entries it runs.
JobOf(src, n, made) ==
    IF made.kind = "sequence" THEN [src |-> src, n |-> n, runs |-> made.runs]
    ELSE [src |-> src, n |-> n]

\* _process_dependency, lines 952-967.
_process_dependency(spec, rebuild) ==
    LET made == _process_stage(spec)
    IN  IF made.exc # "none"
            THEN /\ genRaised' = made.exc
                 /\ UNCHANGED <<specs, _process_jobs, _process_tree, _stages,
                                system, nextId, freeCount>>
            ELSE /\ genRaised' = "none"
                 /\ specs' = DictSet(specs, spec.target, spec)
                 /\ _process_jobs' = DictSet(_process_jobs, spec.target,
                                        [job |-> JobOf("target", spec.target, made),
                                         rebuild |-> rebuild])
                 /\ _process_tree' = DictSet(_process_tree, spec.target, spec.deps)
                 /\ UNCHANGED <<_stages, system, nextId, freeCount>>

\* _process_job, lines 994-1012: a spec without dependencies goes to its
\* stage of the free-task system, created on first use.
ProcessFree(spec) ==
    LET name == IF "stage" \in spec.keys THEN spec.stage
                ELSE IF "target" \in spec.keys THEN spec.target
                ELSE Unspecified
        made == _process_stage(spec)
        job == JobOf("free", freeCount + 1, made)
        exists == name \in DOMAIN _stages.stages
        S1 == IF exists THEN _stages ELSE new_stage(_stages, name, nextId).sys
        id == S1.stages[name].id
    IN  IF made.exc # "none"
            THEN /\ genRaised' = made.exc
                 /\ UNCHANGED <<specs, _process_jobs, _process_tree, _stages,
                                system, nextId, freeCount>>
            ELSE /\ genRaised' = "none"
                 /\ _stages' = AddToObject(S1, id, job)
                 /\ system' = IF system = <<>> THEN system
                              ELSE IF aliased THEN <<AddToObject(S1, id, job)>>
                              ELSE <<AddToObject(system[1], id, job)>>
                 /\ nextId' = IF exists THEN nextId ELSE nextId + 1
                 /\ freeCount' = freeCount + 1
                 /\ UNCHANGED <<specs, _process_jobs, _process_tree>>

\* BuildSystemGenerator._process_job; rebuild is the decision of the
\* dependency check.
_process_job(spec, rebuild) ==
    IF "dependency" \in spec.keys
        THEN IF "stage" \in spec.keys /\ "target" \in spec.keys
                THEN /\ genRaised' = "InvalidJob"
                     /\ UNCHANGED <<specs, _process_jobs, _process_tree, _stages,
                                    system, nextId, freeCount>>
             ELSE IF "stage" \in spec.keys \/ "target" \in spec.keys
                THEN _process_dependency(
                         [spec EXCEPT !.keys = (@ \ {"stage"}) \cup {"target"},
                                      !.target = IF "stage" \in spec.keys
                                                     THEN spec.stage
                                                     ELSE spec.target],
                         rebuild)
             ELSE /\ genRaised' = "none"
                  /\ UNCHANGED <<specs, _process_jobs, _process_tree, _stages,
                                 system, nextId, freeCount>>
        ELSE ProcessFree(spec)

\* ingest, lines 807-813, for a list of one spec: job_count is incremented
\* after every _process_job that returns, and returned; <<>> stands for no
\* value returned, an exception having ended the call.
IngestCall(spec) ==
    [op |-> "ingest", spec |-> spec,
     returned |-> IF genRaised' = "none" THEN <<1>> ELSE <<>>]

\* The job specs ingested: a target with its dependency list, or a job of a
\* named stage.  Names are interchangeable, so the targets are taken in
\* increasing order of their names.
TargetSpecs ==
    {[keys |-> {"job", "args", "target", "dependency"},
      target |-> t, stage |-> Unspecified, deps |-> d] :
        t \in Names, d \in {x \in SUBSET Names : Cardinality(x) <= MaxDeps}}

FreeSpecs ==
    {[keys |-> {"job", "args", "stage"},
      target |-> Unspecified, stage |-> s, deps |-> {}] : s \in Names}

\* BuildSystemGenerator.ingest of one target spec.
IngestTarget ==
    /\ \E spec \in TargetSpecs, rebuild \in RebuildOutcomes(check_method) :
          /\ \A u \in DOMAIN _process_tree : u < spec.target
          /\ _process_job(spec, rebuild)
          /\ genCall' = IngestCall(spec)
    /\ lastOp' = "ingest"
    /\ UNCHANGED <<aliased, _process, _final, check_method, bs, runVars, fileVars, narrowVars>>

\* BuildSystemGenerator.ingest of one free job spec.
IngestFree ==
    /\ freeCount < MaxFree
    /\ \E spec \in FreeSpecs :
          /\ _process_job(spec, FALSE)
          /\ genCall' = IngestCall(spec)
    /\ lastOp' = "ingest"
    /\ UNCHANGED <<aliased, _process, _final, check_method, bs, runVars, fileVars, narrowVars>>

\* The task lists of sequence specs: a value that is no list, or a list of
\* entries, each an action job ('job'), a shell job ('cmd') or neither.
TaskLists ==
    {[list |-> FALSE, entries |-> <<>>]} \cup
    {[list |-> TRUE, entries |-> e] :
        e \in UNION {[1..n -> {"job", "cmd", "other"}] : n \in 0..MaxTasks}}

NoTasks == [list |-> FALSE, entries |-> <<>>]

\* The keys that give a spec its shape: an action job, a shell job, a
\* sequence, or none of them.
ShapeKeys == {{"job", "args"}, {"dir", "cmd", "args"}, {"tasks"}, {}}

\* Job specs of every shape, with or without a target, a stage name and a
\* dependency list.  The target is named 1 and the stage 2.
SpecsOf(shapes, lists) ==
    {[keys |-> shape \cup naming \cup dep,
      target |-> IF "target" \in naming THEN 1 ELSE Unspecified,
      stage |-> IF "stage" \in naming THEN 2 ELSE Unspecified,
      deps |-> {},
      tasks |-> tl] :
        shape \in shapes, naming \in SUBSET {"target", "stage"},
        dep \in {{}, {"dependency"}}, tl \in lists}

ShapedSpecs ==
    SpecsOf(ShapeKeys \ {{"tasks"}}, {NoTasks}) \cup SpecsOf({{"tasks"}}, TaskLists)

\* BuildSystemGenerator.ingest of one spec of any shape.
Ingest ==
    /\ Cardinality(DOMAIN specs) + freeCount < MaxIngest
    /\ \E spec \in ShapedSpecs :
        \E rebuild \in IF "dependency" \in spec.keys
                           THEN RebuildOutcomes(check_method) ELSE {FALSE} :
          /\ _process_job(spec, rebuild)
          /\ genCall' = IngestCall(spec)
    /\ lastOp' = "ingest"
    /\ UNCHANGED <<aliased, _process, _final, check_method, bs, runVars, fileVars, narrowVars>>

\* The check modes DependencyChecks knows.
Checks == {"mtime", "force", "ignore"}

\* The check_method setter, lines 480-485.
SetCheckMethod ==
    /\ \E value \in Checks \cup {"bogus"} :
          /\ check_method' = IF value \notin Checks THEN check_method ELSE value
          /\ genCall' = [op |-> "check_method", value |-> value]
    /\ lastOp' = "check_method"
    /\ genRaised' = "none"
    /\ UNCHANGED <<_stages, system, aliased, _process_tree, _process_jobs,
                   _process, _final, specs, freeCount, nextId, bs, runVars, fileVars, narrowVars>>

\* ------------------------------------------------------ narrow_buildsystem
\* Target specs whose dependency lists have up to MaxMapDeps entries.
MapSpecs ==
    {[keys |-> {"job", "args", "target", "dependency"},
      target |-> t, stage |-> Unspecified, deps |-> d] :
        t \in Names, d \in {x \in SUBSET Names : Cardinality(x) <= MaxMapDeps}}

\* BuildSystemGenerator.ingest of one such spec, no narrow_buildsystem call
\* being in progress.
IngestMapped ==
    /\ npc = "idle"
    /\ \E spec \in MapSpecs, rebuild \in RebuildOutcomes(check_method) :
          /\ \A u \in DOMAIN _process_tree : u < spec.target
          /\ _process_job(spec, rebuild)
          /\ genCall' = IngestCall(spec)
    /\ lastOp' = "ingest"
    /\ UNCHANGED <<aliased, _process, _final, check_method, bs, runVars, fileVars, narrowVars>>

\* BuildSystemGenerator.finalize, no narrow_buildsystem call being in progress.
FinalizeMapped == npc = "idle" /\ Finalize

\* narrow_buildsystem, lines 1018-1027: the requested target is looked up and
\* the traversal starts.  TargetError is no name of the module (lines 30-34
\* import none), so `raise TargetError` raises NameError.
NarrowCall ==
    /\ npc = "idle"
    /\ \E target \in Names :
          /\ requested' = target
          /\ targets' = {target}
          /\ IF target \notin DOMAIN _process_tree
                THEN /\ nraised' = "NameError"
                     /\ npc' = "done"
                     /\ UNCHANGED <<nstack, expanded>>
                ELSE /\ nstack' = <<[target |-> target, tree |-> _process_tree[target]]>>
                     /\ expanded' = <<target>>
                     /\ npc' = "resolve"
                     /\ UNCHANGED nraised
    /\ UNCHANGED <<bsg, bs, nextId, runVars, fileVars, _stages, system, aliased, _process_tree,
                   _process_jobs, _process, _final, specs, check_method, lastOp,
                   freeCount, genRaised, genCall>>

\* resolve, line 1039: targets.add(i).
TargetsAddMutant(tgts, i) == tgts
TargetsAdd(tgts, i) == tgts \cup {i}

\* resolve, lines 1032-1040: one iteration of the loop of the innermost call,
\* or its return.  The entries of a dependency list are taken in any order.
\* `safety += 1` makes safety a local name of resolve that is read before it
\* is bound; a prerequisite that is no target is no key of _process_tree.
\* The number of calls is capped at one more than the names there are.
Resolve ==
    /\ npc = "resolve"
    /\ nstack # <<>>
    /\ Len(expanded) <= NumNames
    /\ LET top == nstack[Len(nstack)]
           below == SubSeq(nstack, 1, Len(nstack) - 1)
       IN  IF top.tree = {}
              THEN /\ nstack' = below
                   /\ UNCHANGED <<npc, targets, expanded, nraised>>
              ELSE \E i \in top.tree :
                     IF i \in targets
                        THEN /\ nraised' = "UnboundLocalError"
                             /\ npc' = "done"
                             /\ UNCHANGED <<nstack, targets, expanded>>
                     ELSE IF i \notin DOMAIN _process_tree
                        THEN /\ targets' = TargetsAdd(targets, i)
                             /\ nraised' = "KeyError"
                             /\ npc' = "done"
                             /\ UNCHANGED <<nstack, expanded>>
                     ELSE /\ targets' = TargetsAdd(targets, i)
                          /\ nstack' = Append(Append(below,
                                            [top EXCEPT !.tree = @ \ {i}]),
                                          [target |-> i, tree |-> _process_tree[i]])
                          /\ expanded' = Append(expanded, i)
                          /\ UNCHANGED <<npc, nraised>>
    /\ UNCHANGED <<requested, bsg, bs, nextId, runVars, fileVars, _stages, system, aliased,
                   _process_tree, _process_jobs, _process, _final, specs,
                   check_method, lastOp, freeCount, genRaised, genCall>>

\* The orders tsort can give for an acyclic map whose ingestion order is
\* not known: every target after its prerequisites.
TopoOrders(tree) ==
    {p \in [1..Cardinality(DOMAIN tree) -> DOMAIN tree] :
        /\ \A a, b \in DOMAIN p : p[a] = p[b] => a = b
        /\ \A a, b \in DOMAIN p : p[b] \in tree[p[a]] => b < a}

\* narrow_buildsystem, line 1046: the specs handed to the new compiler, those
\* of the targets found.
NarrowedSpecsMutant(sp, tgts) == sp
NarrowedSpecs(sp, tgts) == [t \in tgts |-> sp[t]]

\* narrow_buildsystem, lines 1046-1049: the specs of the targets found are
\* ingested, in the order of the set, by a new compiler, which is finalized
\* and returned.  The new compiler checks each target under its own mode.
NarrowFinish ==
    /\ npc = "resolve"
    /\ nstack = <<>>
    /\ LET given == NarrowedSpecs(specs, targets)
           tree == [t \in DOMAIN given |-> given[t].deps]
       IN  \E rb \in [DOMAIN given -> RebuildOutcomes("mtime")],
              proc \in TopoOrders(tree) :
             LET jobs == [t \in DOMAIN given |->
                            [job |-> JobOf("target", t, _process_stage(given[t])),
                             rebuild |-> rb[t]]]
                 done == _finalize_process_tree(StartSystem(NewBuildSystem),
                                                tree, jobs, proc, nextId)
             IN  /\ bsg' = <<[specs |-> given,
                              _process_tree |-> tree,
                              _process_jobs |-> jobs,
                              _process |-> proc,
                              system |-> close(MergeFree(done.sys, NewBuildSystem)),
                              _final |-> TRUE]>>
                 /\ nextId' = done.id
    /\ npc' = "done"
    /\ UNCHANGED <<requested, targets, nstack, expanded, nraised, bs, runVars, fileVars,
                   _stages, system, aliased, _process_tree, _process_jobs, _process,
                   _final, specs, check_method, lastOp, freeCount, genRaised, genCall>>

NarrowInit ==
    /\ npc = "idle"
    /\ requested = Unspecified
    /\ targets = {}
    /\ nstack = <<>>
    /\ expanded = <<>>
    /\ nraised = "none"
    /\ bsg = <<>>

\* The compiler after construction, its check mode set to mode.
GenInitWith(mode) ==
    /\ _stages = NewBuildSystem
    /\ system = <<>>
    /\ aliased = FALSE
    /\ _process_tree = <<>>
    /\ _process_jobs = <<>>
    /\ _process = <<>>
    /\ _final = FALSE
    /\ specs = <<>>
    /\ check_method = mode
    /\ lastOp = "init"
    /\ freeCount = 0
    /\ genRaised = "none"
    /\ genCall = [op |-> "none"]
    /\ NarrowInit

GenInit == GenInitWith("mtime")

\* --------------------------------------- BuildFile (buildergen/buildfile.py)
\* The names of blocks, the lines (str values), and a value that is no str.
Blocks == {"_all", "block1", "block2"}
Lines == 1..NumLines
NotStr == 0

\* A list object: its identity and its items.
NewList(id, items) == [id |-> id, items |-> items]

\* BuildFile.buildfile, line 46: the list object of block '_all'.
buildfile == 0

\* list.append on the list object id, through every name that refers to it.
ListAppend(B, id, data) ==
    [b \in DOMAIN B |->
        IF B[b].id = id THEN [B[b] EXCEPT !.items = Append(@, data)] ELSE B[b]]

\* _add_to_builder, line 67: `block is '_all'` compares the identity of two
\* str objects.  A name other than '_all' is never the same object; an equal
\* name is the same object or not, as the interpreter made it.
IsAll(block) == IF block = "_all" THEN BOOLEAN ELSE {FALSE}

\* BuildFile._add_to_builder, lines 63-75; same is the outcome of line 67.
_add_to_builder(B, data, block, same) ==
    IF data = NotStr THEN [exc |-> "BuildFileError", builder |-> B]
    ELSE LET B1 == IF same THEN B ELSE ListAppend(B, buildfile, data)
             B2 == IF block \in DOMAIN B1
                       THEN ListAppend(B1, B1[block].id, data)
                       ELSE DictSet(B1, block,
                                NewList(Cardinality(DOMAIN B1), <<data>>))
         IN  [exc |-> "none", builder |-> B2]

AddToBuilder ==
    /\ Len(added) < MaxAdds
    /\ \E data \in Lines \cup {NotStr}, block \in Blocks :
        \E same \in IsAll(block) :
          LET r == _add_to_builder(builder, data, block, same)
          IN  /\ builder' = r.builder
              /\ fileRaised' = r.exc
              /\ added' = IF r.exc = "none"
                              THEN Append(added, [data |-> data, block |-> block])
                              ELSE added
              /\ fileCall' = [op |-> "_add_to_builder", block |-> block,
                              returned |-> <<>>]
    /\ UNCHANGED <<bs, nextId, runVars, genVars>>

\* BuildFile.get_block, lines 79-80.
GetBlock ==
    /\ \E block \in Blocks :
          /\ fileRaised' = IF block \in DOMAIN builder THEN "none" ELSE "KeyError"
          /\ fileCall' = [op |-> "get_block", block |-> block,
                          returned |-> IF block \in DOMAIN builder
                                           THEN <<builder[block]>> ELSE <<>>]
    /\ UNCHANGED <<builder, added, bs, nextId, runVars, genVars>>

\* BuildFile(), lines 44-49.
FileInit ==
    /\ builder = [b \in {"_all"} |-> NewList(buildfile, <<>>)]
    /\ added = <<>>
    /\ fileCall = [op |-> "none"]
    /\ fileRaised = "none"

RunInit ==
    /\ pc = "idle"
    /\ call = [op |-> "none"]
    /\ strict = "None"
    /\ run_stages = <<>>
    /\ pos = 1
    /\ ret = "unbound"
    /\ log = <<>>
    /\ result = "noreturn"
    /\ raised = "none"
    /\ why = "none"

Init == bs = NewBuildSystem /\ nextId = 1 /\ RunInit /\ GenInit /\ FileInit

Next ==
    \/ AddStage
    \/ NewStageCall
    \/ Extend
    \/ RunStage
    \/ Close
    \/ SetStrict
    \/ Run
    \/ RunPart
    \/ RunStageStart
    \/ RunStageReturn
    \/ RunLoopExit
    \/ RunReturn

Spec == Init /\ [][Next]_vars

GenNext ==
    \/ IngestTarget
    \/ IngestFree
    \/ Finalize

SpecGen == Init /\ [][GenNext]_vars

\* Ingestion of specs of every shape under every check mode.
IngestNext == Ingest

SpecIngest == Init /\ [][IngestNext]_vars

\* Targets ingested and compiled under every check mode.
CheckNext ==
    \/ SetCheckMethod
    \/ IngestTarget
    \/ Finalize

SpecCheck == Init /\ [][CheckNext]_vars

\* Dependency maps built by ingestion under the check mode force, compiled,
\* and narrowed to one target.
NarrowNext ==
    \/ IngestMapped
    \/ FinalizeMapped
    \/ NarrowCall
    \/ Resolve
    \/ NarrowFinish

ForceInit ==
    bs = NewBuildSystem /\ nextId = 1 /\ RunInit /\ GenInitWith("force") /\ FileInit

SpecNarrow == ForceInit /\ [][NarrowNext]_vars

\* A call of narrow_buildsystem goes on until it returns or raises.
SpecNarrowFair == SpecNarrow /\ WF_vars(Resolve) /\ WF_vars(NarrowFinish)

\* run() of the system the compiler has finalized, lines 392 and 334-380, by
\* the steps of run_part.
RunCompiled ==
    /\ _final
    /\ system # <<>>
    /\ \E strictArg \in OptBool :
          run_part(system[1], "run", 0, 0, TRUE, strictArg)
    /\ UNCHANGED <<bs, nextId, genVars, fileVars>>

CompiledStageStart ==
    /\ system # <<>>
    /\ StageStart(system[1])
    /\ UNCHANGED <<bs, nextId, genVars, fileVars>>

CompiledStageReturn ==
    /\ system # <<>>
    /\ StageReturn(system[1])
    /\ UNCHANGED <<bs, nextId, genVars, fileVars>>

CompiledLoopExit ==
    /\ system # <<>>
    /\ LoopExit(system[1])
    /\ UNCHANGED <<bs, nextId, genVars, fileVars>>

CompiledReturn == Return /\ UNCHANGED <<bs, nextId, genVars, fileVars>>

\* The calls on the compiler, no run being in progress.
IngestTargetIdle == pc = "idle" /\ IngestTarget
IngestFreeIdle == pc = "idle" /\ IngestFree
FinalizeIdle == pc = "idle" /\ Finalize

\* Job specs ingested and compiled under the check mode force, and the
\* compiled system run.
BuildNext ==
    \/ IngestTargetIdle
    \/ IngestFreeIdle
    \/ FinalizeIdle
    \/ RunCompiled
    \/ CompiledStageStart
    \/ CompiledStageReturn
    \/ CompiledLoopExit
    \/ CompiledReturn

SpecBuild == ForceInit /\ [][BuildNext]_vars

\* Lines added to the blocks of a BuildFile, and blocks read.
FileNext ==
    \/ AddToBuilder
    \/ GetBlock

SpecFile == Init /\ [][FileNext]_vars

\* The calls that build and change a BuildSystem, without the runs.
ApiNext ==
    \/ AddStage
    \/ NewStageCall
    \/ Extend
    \/ RunStage
    \/ Close
    \/ SetStrict

SpecApi == Init /\ [][ApiNext]_vars

\* ---------------------------------------------------- claims on run_part
\* The selection run_part was asked for in the call in progress.
Asked == Select(bs, call.stop, call.start, call.op = "run")
InCall == pc # "idle"
AllSucceeded == pc = "done" /\ raised = "none" /\ ret # "False"

C6_RunInOrder ==
    (InCall /\ call.op = "run") =>
        /\ Len(log) <= count(bs)
        /\ log = SubSeq(bs._stages, 1, Len(log))
        /\ (pc = "loop" => Len(log) = pos - 1)
        /\ (pc = "instage" => Len(log) = pos)
        /\ (AllSucceeded => log = bs._stages)

C6_Witness ==
    /\ call.op = "run"
    /\ AllSucceeded
    /\ Len(log) = 3
    /\ log[1] # log[2]
    /\ log[2] # log[3]

\* C7: a stage returning failure never produces an exception, in strict and
\* in permissive mode: the call returns False.
C7_FailureIsFalse ==
    (pc = "done" /\ ret = "False") => (raised = "none" /\ result = "False")

\* C8: every run() and every run_part() with a valid range on a closed
\* system, a system without stages included, yields a boolean: the last
\* executed stage's result when all executed stages succeed, False at the
\* first failing stage.
C8_YieldsBoolean ==
    (pc = "done" /\ ~bs.open /\ Asked.ok) =>
        /\ raised = "none"
        /\ result \in {"True", "False"}
        /\ (ret = "False" => result = "False")
        /\ (ret = "True" => result = "True")

\* C9: in strict mode run() and run_part() on an open system raise
\* StageRunError (the not-closed error when the range is valid) and start no
\* stage; with strict False the same call on an open system executes the
\* selected stages.
C9_OpenSystem ==
    (InCall /\ bs.open) =>
        /\ (strict = "True" =>
               /\ pc = "done"
               /\ raised = "StageRunError"
               /\ result = "noreturn"
               /\ log = <<>>
               /\ (Asked.ok => why = "open"))
        /\ ((strict = "False" /\ Asked.ok) =>
               /\ raised # "StageRunError"
               /\ run_stages = Asked.sel
               /\ Len(log) <= Len(run_stages)
               /\ log = SubSeq(run_stages, 1, Len(log))
               /\ (pc = "done" => (log = run_stages \/ ret = "False")))

C9_Witness ==
    /\ pc = "done"
    /\ bs.open
    /\ strict = "True"
    /\ why = "open"
    /\ Len(run_stages) = 2

\* C10: for 0 <= start < stop < count(), run_part(start, stop) on a closed
\* system whose stages all succeed executes exactly the stages at indices
\* start..stop, both ends included, in that order.
C10_RangeInclusive ==
    (/\ AllSucceeded
     /\ call.op = "run_part"
     /\ ~bs.open
     /\ 0 <= call.start
     /\ call.start < call.stop
     /\ call.stop < count(bs))
        => log = SubSeq(bs._stages, call.start + 1, call.stop + 1)

\* ---------------------------------------------------- claims on finalize
\* finalize() has just compiled a non-empty dependency map.
Compiled ==
    /\ lastOp = "finalize"
    /\ genRaised = "none"
    /\ _final
    /\ DOMAIN _process_tree # {}

TargetJob(t) == [src |-> "target", n |-> t]

\* The positions in the compiled stage order of the stages holding t's job.
StagePos(t) ==
    {k \in 1..count(system[1]) :
        TargetJob(t) \in Range(system[1].stages[system[1]._stages[k]].jobs)}

Scheduled(t) == StagePos(t) # {}

\* Some target at or before position k of the sorted order is stale.
StaleUpTo(k) == \E j \in 1..k : _process_jobs[_process[j]].rebuild

\* No target shares its name with a free-task stage.
DistinctNames == (DOMAIN _process_tree) \cap (DOMAIN _stages.stages) = {}

\* C1: in the system finalize() compiles from an acyclic dependency map, a
\* scheduled target's job is in a stage strictly after the stage of every
\* scheduled target it directly depends on.
C1_DependencyOrder ==
    Compiled =>
        \A T \in DOMAIN _process_tree : \A P \in _process_tree[T] :
            (P \in DOMAIN _process_tree /\ Scheduled(T) /\ Scheduled(P)) =>
                \A kp \in StagePos(P), kt \in StagePos(T) : kp < kt

\* C2: finalize() schedules exactly the targets at or after the first stale
\* target of the sorted order: each of them has its job in some stage, and
\* no target before the first stale one has.
C2_Propagation ==
    Compiled =>
        \A k \in 1..Len(_process) : Scheduled(_process[k]) <=> StaleUpTo(k)

\* C3: when two scheduled targets are adjacent in the sorted order and the
\* later one directly depends on the earlier one, the later one is in a new
\* stage after the stage of the earlier one.
C3_AdjacentBoundary ==
    Compiled =>
        \A k \in 1..(Len(_process) - 1) :
            (/\ _process[k] \in _process_tree[_process[k + 1]]
             /\ Scheduled(_process[k])
             /\ Scheduled(_process[k + 1]))
                => /\ StagePos(_process[k]) \cap StagePos(_process[k + 1]) = {}
                   /\ \A ke \in StagePos(_process[k]),
                         kl \in StagePos(_process[k + 1]) : ke < kl

\* The positions of the compiled stage order that name a free-task stage,
\* and those that name a stage created for targets.
FreePos == {k \in 1..count(system[1]) :
               system[1]._stages[k] \in DOMAIN _stages.stages}
TargetPos == {k \in 1..count(system[1]) :
                 system[1]._stages[k] \in DOMAIN _process_tree}

\* The first position of name n in order seq.
FirstPos(seq, n) == CHOOSE k \in 1..Len(seq) :
                        seq[k] = n /\ \A j \in 1..(k - 1) : seq[j] # n

\* C4: in the stage order finalize() compiles from a non-empty dependency
\* map, every free-task stage comes after all the stages of targets, and the
\* free-task stages come in their ingestion order (names of targets and of
\* free stages being distinct).
C4_FreeStagesLast ==
    (Compiled /\ DistinctNames) =>
        /\ \A kf \in FreePos, kt \in TargetPos : kt < kf
        /\ \A a, b \in Range(_stages._stages) :
              FirstPos(_stages._stages, a) < FirstPos(_stages._stages, b)
                  => FirstPos(system[1]._stages, a) < FirstPos(system[1]._stages, b)

\* C2 with distinct names of targets and free stages.
PropagationDistinct == DistinctNames => C2_Propagation


\* ------------------------------------------------ run_part, single stages
\* The call in progress is run_part(start=i, stop=i) with i in bounds, on a
\* closed system.
SingleIndex ==
    /\ InCall
    /\ call.op = "run_part"
    /\ ~bs.open
    /\ call.start = call.stop
    /\ 0 <= call.start
    /\ call.start < count(bs)

\* Such a call selects the stage at index i and no other, and has run no
\* other stage at any moment.
SingleStageSelected ==
    SingleIndex =>
        /\ run_stages = <<bs._stages[call.start + 1]>>
        /\ \/ log = <<>>
           \/ log = run_stages

\* C11: run_part(start=i, stop=i) with i in bounds, on a closed system,
\* executes exactly the stage at index i of the stage order and returns the
\* value that stage's run() returned.
C11_SingleStage ==
    (SingleIndex /\ pc = "done") =>
        /\ log = <<bs._stages[call.start + 1]>>
        /\ raised = "none"
        /\ result = ret

\* The range of the run_part call in progress is invalid.
InvalidRange ==
    /\ InCall
    /\ call.op = "run_part"
    /\ \/ call.start > call.stop
       \/ call.start < 0
       \/ call.stop < 0
       \/ call.stop >= count(bs)

\* C12: run_part with start > stop, a negative start or stop, or
\* stop >= count() ends with the range error, StageRunError raised in strict
\* mode and False returned in permissive mode, and executes no stage.
C12_RangeRejected ==
    InvalidRange =>
        /\ pc = "done"
        /\ why = "range"
        /\ log = <<>>
        /\ strict = "True" => (raised = "StageRunError" /\ result = "noreturn")
        /\ strict = "False" => (raised = "none" /\ result = "False")

C12_Witness ==
    /\ InvalidRange
    /\ count(bs) = 2
    /\ call.start = 1
    /\ call.stop = 2
    /\ ~bs.open
    /\ raised = "StageRunError"

C12_WitnessEmpty ==
    /\ InvalidRange
    /\ count(bs) = 0
    /\ call.start = 0
    /\ call.stop = 0
    /\ result = "False"


\* ------------------------------------------- claims on building a system
\* The step is a call of add_stage or new_stage.
Adding == pc = "idle" /\ call'.op \in {"add_stage", "new_stage"}

\* The strict mode such a call works in: its strict argument, by default the
\* system's own.
AddingStrictly ==
    IF call'.op = "add_stage" /\ call'.strict # "None"
        THEN call'.strict = "True"
        ELSE bs._strict

\* C13: add_stage with a name that is already registered fails, by raising
\* in strict mode and by returning False otherwise, and leaves the stage
\* order and the mapping as they were.
C13_DuplicateRejected ==
    [][(Adding /\ call'.op = "add_stage" /\ call'.name \in DOMAIN bs.stages) =>
            /\ bs' = bs
            /\ IF AddingStrictly THEN raised' # "none"
                                 ELSE raised' = "none" /\ result' = "False"]_vars

\* C14: no stage name occurs twice in the stage order list.
C14_NamesOnce ==
    \A i, j \in 1..Len(bs._stages) : bs._stages[i] = bs._stages[j] => i = j

\* C15: the names in the stage order list are the keys of the mapping.
C15_OrderMatchesMapping == Range(bs._stages) = DOMAIN bs.stages

C15_Witness ==
    /\ call.op = "extend"
    /\ call.other # <<>>
    /\ count(call.other[1]) = 2
    /\ count(bs) = 3
    /\ Cardinality(DOMAIN bs.stages) = 2

\* C16: on a closed system add_stage and new_stage in strict mode fail and
\* leave the stage order and the mapping as they were.
C16_ClosedRejectsAdd ==
    [][(Adding /\ ~bs.open /\ AddingStrictly) =>
            /\ bs' = bs
            /\ raised' # "none"]_vars

\* C17: a closed system stays closed whatever is called; close() closes an
\* open system, and on a closed one it changes nothing and raises nothing.
C17_OneWay ==
    [][/\ ~bs.open => ~bs'.open
       /\ (pc = "idle" /\ call'.op = "close") =>
              /\ ~bs'.open
              /\ raised' = "none"
              /\ ~bs.open => bs' = bs]_vars

C17_Witness ==
    /\ call.op = "close"
    /\ ~call.wasOpen
    /\ ~bs.open
    /\ raised = "none"
    /\ count(bs) > 0

\* The number of times name n occurs in seq.
Occurrences(seq, n) == Cardinality({k \in 1..Len(seq) : seq[k] = n})

C18_WitnessInvalid == call.op = "extend" /\ call.other = <<>> /\ raised = "InvalidSystem"


\* ------------------------------------------ claims on a finalized compiler
\* C19: once finalize() has succeeded, every further finalize() raises
\* InvalidSystem, compiles nothing again, and leaves the finalized system,
\* the free-task system and the finalized flag as they were.
C19_SingleUse ==
    [][(_final /\ lastOp' = "finalize") =>
            /\ genRaised' = "InvalidSystem"
            /\ system' = system
            /\ _stages' = _stages
            /\ _process' = _process
            /\ nextId' = nextId
            /\ _final']_vars

\* A second finalize() of a compiler that holds a compiled system has failed.
C19_Witness ==
    /\ _final
    /\ lastOp = "finalize"
    /\ genRaised = "InvalidSystem"
    /\ DOMAIN _process_tree # {}
    /\ count(system[1]) > 0
    /\ ~system[1].open

\* C20: once finalize() has succeeded, ingest() of any spec raises the
\* already-finalized error and leaves the finalized system and the
\* dependency map as they were.
C20_IngestRefused ==
    [][(_final /\ lastOp' = "ingest") =>
            /\ genRaised' = "InvalidSystem"
            /\ system' = system
            /\ _process_tree' = _process_tree
            /\ _process_jobs' = _process_jobs]_vars


\* ------------------------------------------------------ claims on finalize
\* The stages of S stand in the order in which their first jobs were
\* ingested (free jobs are numbered as they are ingested).
InIngestionOrder(S) ==
    \A k, l \in 1..count(S) :
        k < l => S.stages[S._stages[k]].jobs[1].n < S.stages[S._stages[l]].jobs[1].n

\* C21: finalize() of a compiler with an empty dependency map yields a closed
\* system whose stages are the free-task stages, in ingestion order, when
\* there is one at least; with no free-task stage it raises InvalidSystem and
\* leaves no system.
C21_EmptyMap ==
    [][(lastOp' = "finalize" /\ ~_final /\ DOMAIN _process_tree = {}) =>
            IF count(_stages) > 0
                THEN /\ genRaised' = "none"
                     /\ _final'
                     /\ system' # <<>>
                     /\ ~system'[1].open
                     /\ system'[1]._stages = _stages._stages
                     /\ system'[1].stages = _stages.stages
                     /\ InIngestionOrder(system'[1])
                ELSE /\ genRaised' = "InvalidSystem"
                     /\ system' = <<>>
                     /\ ~_final']_vars

C21_Witness ==
    /\ lastOp = "finalize"
    /\ genRaised = "none"
    /\ _final
    /\ DOMAIN _process_tree = {}
    /\ count(system[1]) = 2
    /\ ~system[1].open

C21_WitnessEmpty ==
    /\ lastOp = "finalize"
    /\ genRaised = "InvalidSystem"
    /\ ~_final
    /\ system = <<>>
    /\ DOMAIN _process_tree = {}

\* C22: finalize() of a compiler whose dependency map is not empty, with no
\* stale target and no free-task stage, raises the empty-system error and
\* yields no finalized system.
C22_NothingStale ==
    [][(/\ lastOp' = "finalize"
        /\ ~_final
        /\ system = <<>>
        /\ DOMAIN _process_tree # {}
        /\ tsort(_process_tree).ok
        /\ \A t \in DOMAIN _process_tree : ~_process_jobs[t].rebuild
        /\ count(_stages) = 0) =>
            /\ genRaised' = "InvalidSystem"
            /\ ~_final']_vars

\* C23: in the compiled system two scheduled targets that are adjacent in
\* the sorted order, with no direct dependency between them, have their jobs
\* in the same stage; so three independent stale targets are three jobs of
\* one stage.
C23_Compaction ==
    Compiled =>
        \A k \in 1..(Len(_process) - 1) :
            (/\ StaleUpTo(k)
             /\ _process[k] \notin _process_tree[_process[k + 1]]
             /\ _process[k + 1] \notin _process_tree[_process[k]])
                => /\ Scheduled(_process[k])
                   /\ StagePos(_process[k]) = StagePos(_process[k + 1])

\* C23 with distinct names of targets and free stages.
CompactionDistinct == DistinctNames => C23_Compaction


\* ------------------------------------------------------ claims on ingestion
\* The step is an ingest of a spec; nothing was added by it.
Ingesting == genCall'.op = "ingest"

NothingAdded ==
    /\ _process_tree' = _process_tree
    /\ _process_jobs' = _process_jobs
    /\ _stages' = _stages

\* C24: ingesting a spec that declares a target and a stage name raises
\* InvalidJob, with or without dependencies, and adds nothing to the
\* dependency map or to the free-task stages.
C24_TargetAndStage ==
    [][(Ingesting /\ {"target", "stage"} \subseteq genCall'.spec.keys) =>
            /\ genRaised' = "InvalidJob"
            /\ NothingAdded]_vars

\* The spec is no action job, no shell job and no sequence.
Shapeless(spec) ==
    /\ ~({"job", "args"} \subseteq spec.keys)
    /\ ~({"dir", "cmd", "args"} \subseteq spec.keys)
    /\ "tasks" \notin spec.keys

\* The spec is a sequence whose task list has an entry that is neither an
\* action job nor a shell job.
ShapelessEntry(spec) ==
    /\ ~({"job", "args"} \subseteq spec.keys)
    /\ ~({"dir", "cmd", "args"} \subseteq spec.keys)
    /\ "tasks" \in spec.keys
    /\ spec.tasks.list
    /\ \E k \in 1..Len(spec.tasks.entries) : spec.tasks.entries[k] = "other"

\* C25: ingesting a spec of none of the three shapes, or a sequence with a
\* task list entry of none of the two job shapes, raises InvalidJob and adds
\* no job.
C25_UnrecognizedShape ==
    [][(Ingesting /\ (Shapeless(genCall'.spec) \/ ShapelessEntry(genCall'.spec))) =>
            /\ genRaised' = "InvalidJob"
            /\ NothingAdded]_vars

\* The part of C25 about specs that name a target or a stage and have none
\* of the three shapes.
ShapelessNamedRejected ==
    [][(/\ Ingesting
        /\ Shapeless(genCall'.spec)
        /\ genCall'.spec.keys \cap {"target", "stage"} # {}) =>
            /\ genRaised' = "InvalidJob"
            /\ NothingAdded]_vars

\* C26: setting the check mode to a value that is no check mode raises at
\* once, and the mode set before stays.
C26_InvalidMode ==
    [][(genCall'.op = "check_method" /\ genCall'.value \notin Checks) =>
            /\ genRaised' # "none"
            /\ check_method' = check_method]_vars

\* The part of C26 that holds: the mode set before stays.
InvalidModeIgnored ==
    [][(genCall'.op = "check_method" /\ genCall'.value \notin Checks) =>
            check_method' = check_method]_vars


\* ------------------------------------------- claims on narrow_buildsystem
\* The targets among the direct prerequisites of the targets in S.
Prerequisites(S) ==
    UNION {_process_tree[t] \cap DOMAIN _process_tree : t \in S \cap DOMAIN _process_tree}

\* S with all the targets that are transitive prerequisites of its members.
RECURSIVE ClosureOf(_)
ClosureOf(S) ==
    IF Prerequisites(S) \subseteq S THEN S ELSE ClosureOf(S \cup Prerequisites(S))

\* Target t is on a cycle of the dependency map.
OnCycle(t) == t \in ClosureOf(Prerequisites({t}))

Acyclic == \A t \in DOMAIN _process_tree : ~OnCycle(t)

\* A call of narrow_buildsystem for a target of the map has ended.
Narrowed == npc = "done" /\ requested \in DOMAIN _process_tree

\* C27: for an acyclic dependency map and a requested target in it,
\* narrow_buildsystem succeeds and the dependency map of the compiler it
\* returns has the requested target and its transitive prerequisites that
\* are targets, and no other target.
C27_Closure ==
    (Narrowed /\ Acyclic) =>
        /\ nraised = "none"
        /\ bsg # <<>>
        /\ DOMAIN bsg[1]._process_tree = ClosureOf({requested})

\* The part of C27 that holds: whenever narrow_buildsystem returns a
\* compiler, its dependency map is the closure of the requested target.
ClosureWhenReturned ==
    (Narrowed /\ nraised = "none") =>
        /\ bsg # <<>>
        /\ DOMAIN bsg[1]._process_tree = ClosureOf({requested})
        /\ \A t \in DOMAIN bsg[1]._process_tree :
              bsg[1]._process_tree[t] = _process_tree[t]

\* C28: narrow_buildsystem for a target that is not in the dependency map
\* raises TargetError before any traversal, ingestion or finalization.
C28_UnknownTarget ==
    (npc = "done" /\ requested \notin DOMAIN _process_tree) =>
        /\ nraised = "TargetError"
        /\ expanded = <<>>
        /\ bsg = <<>>

\* The part of C28 that holds: the call raises, with nothing traversed and
\* no compiler made.
UnknownTargetFails ==
    (npc = "done" /\ requested \notin DOMAIN _process_tree) =>
        /\ nraised # "none"
        /\ expanded = <<>>
        /\ bsg = <<>>

\* finalize() was called on a compiler that had no system yet.
FirstFinalize == genCall.op = "finalize" /\ genRaised # "InvalidSystem"

\* C29: with a cycle in the dependency map, finalize() raises the
\* cyclic-dependency error and leaves no finalized system, and
\* narrow_buildsystem for a target that reaches the cycle raises it too and
\* returns no compiler.
C29_CycleRejected ==
    /\ (FirstFinalize /\ ~Acyclic) =>
          /\ genRaised = "CyclicDependency"
          /\ ~_final
          /\ system # <<>> => system[1].open
    /\ (Narrowed /\ \E t \in ClosureOf({requested}) : OnCycle(t)) =>
          /\ nraised = "CyclicDependency"
          /\ bsg = <<>>

\* The part of C29 that holds: no schedule is made from a map with a cycle.
NoScheduleFromCycle ==
    /\ (FirstFinalize /\ ~Acyclic) =>
          /\ genRaised = "CyclicDependency"
          /\ ~_final
          /\ system # <<>> => system[1].open
    /\ (Narrowed /\ \E t \in ClosureOf({requested}) : OnCycle(t)) =>
          /\ nraised # "none"
          /\ bsg = <<>>

\* No target was expanded twice, so there are no more expansions than
\* targets in the map.
ExpandedOnce ==
    /\ \A a, b \in 1..Len(expanded) : expanded[a] = expanded[b] => a = b
    /\ Len(expanded) <= Cardinality(DOMAIN _process_tree)
    /\ Range(expanded) \subseteq DOMAIN _process_tree

\* C30: the traversal of narrow_buildsystem ends on every dependency map,
\* and expands each target at most once.
C30_Terminates == []ExpandedOnce /\ (npc = "resolve" ~> npc = "done")

\* A traversal over a cycle has ended, every target of the map expanded.
C30_Witness ==
    /\ Narrowed
    /\ OnCycle(requested)
    /\ Len(expanded) = 3
    /\ Cardinality(DOMAIN _process_tree) = 3

\* A call of narrow_buildsystem returns in this step.
NarrowReturns == npc = "resolve" /\ npc' = "done" /\ nraised' = "none"

RunningStage == pc = "idle" /\ call'.op = "run_stage"

RunningStrictly ==
    IF call'.strict # "None" THEN call'.strict = "True" ELSE bs._strict

\* C32: run_stage(name) with a name that is not registered runs nothing, and
\* raises StageRunError in strict mode and returns False otherwise; with a
\* registered name it runs that stage and no other and returns True.
C32_RunStage ==
    [][RunningStage =>
          IF call'.name \notin DOMAIN bs.stages
              THEN /\ log' = <<>>
                   /\ IF RunningStrictly
                         THEN raised' = "StageRunError"
                         ELSE raised' = "none" /\ result' = "False"
              ELSE /\ log' = <<call'.name>>
                   /\ raised' = "none"
                   /\ result' = "True"]_vars

\* The part of C32 that holds: what is run, the exception of strict mode,
\* and the value returned for a registered name.
RunStageRunsOne ==
    [][RunningStage =>
          IF call'.name \notin DOMAIN bs.stages
              THEN /\ log' = <<>>
                   /\ IF RunningStrictly
                         THEN raised' = "StageRunError"
                         ELSE raised' = "none"
              ELSE /\ log' = <<call'.name>>
                   /\ raised' = "none"
                   /\ result' = "True"]_vars

\* ------------------------------------------------- claims on repeated names
\* The step is add_stage(name, stage=None, strict=False), the type of the
\* stage to make being a valid one, with a name that is registered.
RepeatingStage ==
    /\ pc = "idle"
    /\ call'.op = "add_stage"
    /\ call'.stage \in {"stage", "seq"}
    /\ call'.strict = "False"
    /\ call'.name \in DOMAIN bs.stages

\* C33: add_stage(name, stage=None, strict=False) with a registered name adds
\* the name to the order once more and leaves the mapping as it was, the
\* stage registered before with all of its jobs; so a run performs that
\* stage once for every occurrence of its name.
C33_RepeatedStage ==
    [][RepeatingStage =>
          /\ raised' = "none"
          /\ bs'._stages = Append(bs._stages, call'.name)
          /\ bs'.stages = bs.stages]_vars

\* The part of C33 that holds: the name is added to the order once more; the
\* mapping holds a new stage without jobs for it, and is as before otherwise.
RepeatedStageReplaced ==
    [][RepeatingStage =>
          /\ raised' = "none"
          /\ bs'._stages = Append(bs._stages, call'.name)
          /\ bs'.stages[call'.name].jobs = <<>>
          /\ \A n \in DOMAIN bs.stages \ {call'.name} :
                 bs'.stages[n] = bs.stages[n]]_vars

\* --------------------------------------------------- claims on ingest's count
\* The jobs held by the stages of system S.
RECURSIVE JobsIn(_, _)
JobsIn(S, names) ==
    IF names = {} THEN 0
    ELSE LET n == CHOOSE x \in names : TRUE
         IN  Len(S.stages[n].jobs) + JobsIn(S, names \ {n})

\* The ingest of this step has recorded its spec: as a graph task under the
\* name the spec gives, or as one more job of a free-task stage.
Recorded ==
    \/ JobsIn(_stages', DOMAIN _stages'.stages) =
           JobsIn(_stages, DOMAIN _stages.stages) + 1
    \/ /\ "dependency" \in genCall'.spec.keys
       /\ \E t \in {genCall'.spec.target, genCall'.spec.stage} \ {Unspecified} :
              /\ t \in DOMAIN _process_jobs'
              /\ t \in DOMAIN _process_tree'
              /\ t \in DOMAIN specs'

\* C34: the number ingest returns is the number of the specs given that were
\* recorded, as a graph task or as a free task; a spec that is recorded
\* nowhere is not counted.
C34_CountsAdded ==
    [][(Ingesting /\ genCall'.returned # <<>>) =>
          genCall'.returned[1] = IF Recorded THEN 1 ELSE 0]_vars

\* The part of C34 that holds: a spec that was recorded is counted.
RecordedCounted ==
    [][(Ingesting /\ genCall'.returned # <<>> /\ Recorded) =>
          genCall'.returned[1] = 1]_vars

\* ------------------------------------------------------ claims on BuildFile
\* The lines of the entries of seq from the k-th on that were added to block
\* b, in order.
RECURSIVE LinesOf(_, _, _)
LinesOf(seq, b, k) ==
    IF k > Len(seq) THEN <<>>
    ELSE IF seq[k].block = b THEN <<seq[k].data>> \o LinesOf(seq, b, k + 1)
    ELSE LinesOf(seq, b, k + 1)

\* The blocks hold the lines added: '_all' every line once, in the order of
\* the additions; every other block the lines added to it, in order, in a
\* list object of its own.
BlocksInOrder ==
    /\ builder["_all"].items = [k \in 1..Len(added) |-> added[k].data]
    /\ \A b \in Blocks \ {"_all"} :
          IF LinesOf(added, b, 1) = <<>>
              THEN b \notin DOMAIN builder
              ELSE b \in DOMAIN builder /\ builder[b].items = LinesOf(added, b, 1)
    /\ \A b, c \in DOMAIN builder : builder[b].id = builder[c].id => b = c

\* C35: after any additions of lines to blocks of a BuildFile, block '_all'
\* holds all the lines added, in order, each once, those added to '_all'
\* itself included, and every named block holds the lines added to it, in
\* order, in a list object no other block has.
C35_AllBlock == BlocksInOrder

\* The part of C35 that holds: as long as no line was added to '_all' itself.
NamedBlocksInOrder ==
    (\A k \in 1..Len(added) : added[k].block # "_all") => BlocksInOrder

\* ------------------------------------------------- claims on compaction
\* How often job j is held by the stages of system S named in names.
RECURSIVE HeldIn(_, _, _)
HeldIn(S, j, names) ==
    IF names = {} THEN 0
    ELSE LET n == CHOOSE x \in names : TRUE
         IN  Occurrences(S.stages[n].jobs, j) + HeldIn(S, j, names \ {n})

\* The job of target t is held once by the stages of the compiled system,
\* by a stage that was made for targets and stands once in the order.
HeldOnce(t) ==
    /\ HeldIn(system[1], TargetJob(t), DOMAIN system[1].stages) = 1
    /\ \A n \in DOMAIN system[1].stages :
          TargetJob(t) \in Range(system[1].stages[n].jobs) =>
              /\ n \in DOMAIN _process_tree
              /\ Occurrences(system[1]._stages, n) = 1

\* C36: in the system finalize() compiles from a non-empty dependency map,
\* every target at or after the first stale target of the sorted order has
\* its job in one stage made for targets, once, wherever the target stands
\* in the order.
C36_NoneLost ==
    Compiled =>
        \A k \in 1..Len(_process) : StaleUpTo(k) => HeldOnce(_process[k])

\* C36 with distinct names of targets and free stages.
NoneLostDistinct == DistinctNames => C36_NoneLost

\* --------------------------------------------- claims on running the build
\* How often the run in progress has started a stage that holds job j.
RECURSIVE Executions(_, _)
Executions(j, k) ==
    IF k > Len(log) THEN 0
    ELSE Occurrences(system[1].stages[log[k]].jobs, j) + Executions(j, k + 1)

\* The jobs the stages of the compiled system hold.
SystemJobs == UNION {Range(system[1].stages[n].jobs) : n \in DOMAIN system[1].stages}

\* run() of the compiled system has ended, every stage having succeeded.
RanCompiled == system # <<>> /\ _final /\ call.op = "run" /\ AllSucceeded

\* C37: in one run() of the system finalize() has produced, all stages
\* succeeding, every job of the system is executed once, the free tasks as
\* well as the jobs of scheduled targets; no free-task stage is run twice.
C37_EachJobOnce ==
    RanCompiled => \A j \in SystemJobs : Executions(j, 1) = 1

\* The part of C37 that holds: every job is executed, the jobs of scheduled
\* targets once, and with an empty dependency map the free tasks once.
EachJobExecuted ==
    RanCompiled =>
        /\ \A j \in SystemJobs : Executions(j, 1) >= 1
        /\ \A j \in SystemJobs : j.src = "target" => Executions(j, 1) = 1
        /\ DOMAIN _process_tree = {} => \A j \in SystemJobs : Executions(j, 1) = 1

\* ------------------------------------------------ claims on shared names
\* The names that a target and a free-task stage share.
SharedNames == (DOMAIN _process_tree) \cap (DOMAIN _stages.stages)

\* Job j is held by some stage of the compiled system.
Held(j) == HeldIn(system[1], j, DOMAIN system[1].stages) >= 1

\* C38: when a target and a free-task stage have the same name, the system
\* finalize() compiles holds the job of the target, if it is scheduled, and
\* the jobs of the free-task stage: neither is overwritten or dropped.
C38_BothKept ==
    Compiled =>
        \A k \in 1..Len(_process) :
            (_process[k] \in SharedNames) =>
                /\ StaleUpTo(k) => Held(TargetJob(_process[k]))
                /\ \A j \in Range(_stages.stages[_process[k]].jobs) : Held(j)

\* The part of C38 that holds: the jobs of the free-task stage are kept.
FreeStageKept ==
    Compiled =>
        \A n \in SharedNames : \A j \in Range(_stages.stages[n].jobs) : Held(j)

====
